---- MODULE Spec2Model ----
(***************************************************************************)
(* State-machine model of src/farmer_gdd_app.py: the NASA POWER block      *)
(* fetch with bounded retry (get_power_daily_tmax_tmin), the daily GDD     *)
(* formula (daily_gdd) and the block-wise accumulation loop                *)
(* (simulate_gdd).                                                         *)
(*                                                                         *)
(* Dates are day ordinals inside one non-leap calendar year (1 = Jan 1).   *)
(* The 8-digit "%Y%m%d" strings exchanged with the remote service are the  *)
(* integers they spell (20250131): strings of equal length made of digits  *)
(* sort exactly like these integers.                                       *)
(*                                                                         *)
(* Temperatures and GDD amounts are integers.  Observations are drawn so   *)
(* that tmax + tmin is even, which makes the division by 2.0 of daily_gdd  *)
(* exact.                                                                  *)
(***************************************************************************)
EXTENDS Integers, Sequences, FiniteSets, TLC

(***************************************************************************)
(* Bounds of the model.                                                    *)
(***************************************************************************)
\* largest max_days (horizon length) a run is configured with
MaxDays == 2
\* largest block_days a run is configured with
MaxBlockDays == 2
\* largest max_retries a direct call of the fetch is made with
MaxRetries == 3
\* the runs start on this day of the year (Jan 30: blocks cross into February)
StartDay == 30

\* largest temperature (and, negated, smallest) daily_gdd is applied to alone
MaxGddTemp == 4

\* max_retries=3 of line 32, the default simulate_gdd relies on (line 113 passes none)
DefaultMaxRetries == 3

\* temperatures the remote source reports
Temps == {0, 4}
\* base temperatures of a run
TBases == {1}
\* the target tuples of a run (as sets: the tuple's order does not matter,
\* stage_dates is keyed by value)
TargetChoices == {{0}, {2}, {0, 3}, {2, 4}}
\* status codes on which raise_for_status raises HTTPError
StatusCodes == {404, 500, 503}

(***************************************************************************)
(* Calendar: strftime("%Y%m%d") and strptime(..., "%Y%m%d").               *)
(***************************************************************************)
MonthLen == <<31, 28, 31, 30, 31, 30, 31, 31, 30, 31, 30, 31>>

RECURSIVE DaysBefore(_)
DaysBefore(m) == IF m <= 1 THEN 0 ELSE DaysBefore(m - 1) + MonthLen[m - 1]

MonthOf(d) == CHOOSE m \in 1..12 : DaysBefore(m) < d /\ d <= DaysBefore(m) + MonthLen[m]

\* pd.to_datetime(d).strftime("%Y%m%d")
strftime(d) == 2025 * 10000 + MonthOf(d) * 100 + (d - DaysBefore(MonthOf(d)))

\* datetime.strptime(d_str, "%Y%m%d").date()
strptime(k) == DaysBefore((k \div 100) % 100) + (k % 100)

\* the days the remote source has keys for
Days == (StartDay - 2)..(StartDay + MaxDays + 2)
AllKeys == {strftime(d) : d \in Days}

(***************************************************************************)
(* Helpers.                                                                *)
(***************************************************************************)
Max(a, b) == IF a >= b THEN a ELSE b
Min(a, b) == IF a <= b THEN a ELSE b
SetMax(S) == CHOOSE x \in S : \A y \in S : y <= x

None == <<>>
Some(d) == <<d>>

EmptyDict == [k \in {} |-> 0]
NoData == [wellformed |-> FALSE, T2M_MAX |-> EmptyDict, T2M_MIN |-> EmptyDict]
NoRet == [kind |-> "none", exc |-> "", rows |-> <<>>]
Raise(e) == [kind |-> "raise", exc |-> e, rows |-> <<>>]
Return(rows) == [kind |-> "ok", exc |-> "", rows |-> rows]

(***************************************************************************)
(* daily_gdd                                                               *)
(***************************************************************************)
daily_gdd_NoClamp(tmax, tmin, tbase) == (tmax + tmin) \div 2 - tbase

daily_gdd_NoMean(tmax, tmin, tbase) ==
    IF tmax - tbase >= 0 THEN tmax - tbase ELSE 0

daily_gdd(tmax, tmin, tbase) ==
    LET tmean == (tmax + tmin) \div 2
    IN  Max(tmean - tbase, 0)

(***************************************************************************)
(* get_power_daily_tmax_tmin, lines 69-82: the response turned into rows.  *)
(***************************************************************************)
\* sorted(tmax_dict.keys())
sorted_Descending(S) ==
    CHOOSE s \in [1..Cardinality(S) -> S] :
        \A i, j \in 1..Cardinality(S) : i < j => s[i] > s[j]

RECURSIVE sorted(_)
sorted(S) ==
    IF S = {}
    THEN <<>>
    ELSE LET least == CHOOSE x \in S : \A y \in S : x <= y
         IN  <<least>> \o sorted(S \ {least})

ParseResponse_MalformedEmpty(data) ==
    IF ~data.wellformed
    THEN Return(<<>>)
    ELSE LET tmax_dict == data.T2M_MAX
             tmin_dict == data.T2M_MIN
             keys == sorted(DOMAIN tmax_dict)
         IN  IF \E k \in DOMAIN tmax_dict : k \notin DOMAIN tmin_dict
             THEN Raise("KeyError")
             ELSE Return([i \in 1..Len(keys) |->
                            [date |-> strptime(keys[i]),
                             T2M_MAX |-> tmax_dict[keys[i]],
                             T2M_MIN |-> tmin_dict[keys[i]]]])

ParseResponse(data) ==
    IF ~data.wellformed
    THEN Raise("KeyError")
    ELSE LET tmax_dict == data.T2M_MAX
             tmin_dict == data.T2M_MIN
             keys == sorted(DOMAIN tmax_dict)
         IN  IF \E k \in DOMAIN tmax_dict : k \notin DOMAIN tmin_dict
             THEN Raise("KeyError")
             ELSE Return([i \in 1..Len(keys) |->
                            [date |-> strptime(keys[i]),
                             T2M_MAX |-> tmax_dict[keys[i]],
                             T2M_MIN |-> tmin_dict[keys[i]]]])

\* line 57: 500 <= r.status_code < 600
IsServerError_Any4xx5xx(status) == 400 <= status /\ status < 600
IsServerError(status) == 500 <= status /\ status < 600

\* lines 57 and 63: attempt < max_retries
CanRetry_OneShort(attempt_no, retries) == attempt_no + 1 < retries
CanRetry(attempt_no, retries) == attempt_no < retries

(***************************************************************************)
(* The remote source: what a request for [start_str, end_str] may answer.  *)
(***************************************************************************)
RangeKeys(start_str, end_str) == {k \in AllKeys : start_str <= k /\ k <= end_str}

Responses(start_str, end_str) ==
    {NoData} \cup
    UNION {UNION {{[wellformed |-> TRUE, T2M_MAX |-> tm, T2M_MIN |-> tn] :
                      tm \in [K1 -> Temps], tn \in [K2 -> Temps]} :
                  K1 \in SUBSET RangeKeys(start_str, end_str)} :
           K2 \in SUBSET RangeKeys(start_str, end_str)}

VARIABLES
    caller,         \* "simulate_gdd": the fetch runs inside a run; "direct": called alone
    pc,             \* position of the control flow
    start_date, tbase, targets, max_days, block_days,          \* simulate_gdd's arguments
    cum_gdd, stage_dates, history_rows, current_start, current_end,
    df_block,       \* rows of the block not yet iterated over
    st_error,       \* st.error was called (line 115)
    got_rows,       \* some fetch of the run returned at least one row
    q_start, q_end, \* start_str, end_str of the request
    max_retries, attempt, data, ret,
    outcomes,       \* what each attempt of the current call met
    fetch_log,      \* where two runs are interleaved: what each fetch of this run
                    \* returned or raised, in order
    self,           \* where two runs are interleaved: the run (1 or 2) whose
                    \* call frame the variables above and below hold; 0 otherwise
    parked,         \* the call frame of the other run
    remote          \* the weather the remote source holds, where a run is checked
                    \* against a fixed source: tmax, tmin of every day and the
                    \* number of days from start_date on it has data for

cfgVars == <<start_date, tbase, targets, max_days, block_days, remote, self, parked>>
engineVars == <<cum_gdd, stage_dates, history_rows, current_start, current_end,
                df_block, st_error, got_rows, fetch_log>>
clientVars == <<q_start, q_end, max_retries, attempt, data, ret, outcomes>>
vars == <<caller, pc, cfgVars, engineVars, clientVars>>

end_date_limit == start_date + max_days

\* the fetch results of a run, kept where two runs are interleaved
Logged(r) == IF self = 0 THEN fetch_log ELSE Append(fetch_log, r)
highest_target == SetMax(targets)

\* no other run
NoFrame == <<>>

\* the remote source is not fixed: every attempt may meet any answer
AnySource == [tmax |-> 0, tmin |-> 0, ndays |-> 0]

\* fixed sources: the same tmax and tmin on each of the first ndays days
FixedSources ==
    {[tmax |-> 30, tmin |-> 20, ndays |-> 10],
     [tmax |-> 20, tmin |-> 20, ndays |-> 10],
     [tmax |-> 14, tmin |-> 12, ndays |-> 10],
     [tmax |-> 12, tmin |-> 6, ndays |-> 10]}

\* what a fixed source answers to a request for [start_str, end_str]
FixedResponse(start_str, end_str) ==
    LET keys == {k \in {strftime(d) : d \in start_date..(start_date + remote.ndays - 1)} :
                    start_str <= k /\ k <= end_str}
    IN  [wellformed |-> TRUE,
         T2M_MAX |-> [k \in keys |-> remote.tmax],
         T2M_MIN |-> [k \in keys |-> remote.tmin]]

(***************************************************************************)
(* get_power_daily_tmax_tmin, lines 50-67: one action per iteration of the *)
(* retry loop, by what requests.get / raise_for_status meets.              *)
(***************************************************************************)
\* lines 52-55, then 69-82: the request succeeds, the loop is left by break
\* and the response is parsed (or found to lack a key)
AttemptSucceeds ==
    /\ pc = "attempt"
    /\ attempt < max_retries
    /\ \E resp \in Responses(q_start, q_end) :
          /\ data' = resp
          /\ ret' = ParseResponse(resp)
          /\ pc' = IF ParseResponse(resp).kind = "ok" THEN "returned" ELSE "raised"
    /\ attempt' = attempt + 1
    /\ outcomes' = Append(outcomes, 200)
    /\ UNCHANGED <<caller, cfgVars, engineVars, q_start, q_end, max_retries>>

\* lines 52-55, then 69-82, against a fixed source
AttemptFixedSource ==
    /\ pc = "attempt"
    /\ attempt < max_retries
    /\ data' = FixedResponse(q_start, q_end)
    /\ ret' = ParseResponse(FixedResponse(q_start, q_end))
    /\ pc' = IF ParseResponse(FixedResponse(q_start, q_end)).kind = "ok"
             THEN "returned" ELSE "raised"
    /\ attempt' = attempt + 1
    /\ outcomes' = Append(outcomes, 200)
    /\ UNCHANGED <<caller, cfgVars, engineVars, q_start, q_end, max_retries>>

\* lines 56-61: raise_for_status raised HTTPError
AttemptHTTPError ==
    /\ pc = "attempt"
    /\ attempt < max_retries
    /\ \E status \in StatusCodes :
          /\ outcomes' = Append(outcomes, status)
          /\ IF IsServerError(status) /\ CanRetry(attempt + 1, max_retries)
             THEN pc' = "attempt" /\ ret' = ret
             ELSE pc' = "raised" /\ ret' = Raise("HTTPError")
    /\ attempt' = attempt + 1
    /\ UNCHANGED <<caller, cfgVars, engineVars, q_start, q_end, max_retries, data>>

\* lines 62-67: requests.get raised another RequestException (timeout,
\* connection error); recorded in outcomes as status 0
AttemptRequestException ==
    /\ pc = "attempt"
    /\ attempt < max_retries
    /\ outcomes' = Append(outcomes, 0)
    /\ IF CanRetry(attempt + 1, max_retries)
       THEN pc' = "attempt" /\ ret' = ret
       ELSE pc' = "raised" /\ ret' = Raise("RequestException")
    /\ attempt' = attempt + 1
    /\ UNCHANGED <<caller, cfgVars, engineVars, q_start, q_end, max_retries, data>>

\* lines 50, 69: range(1, max_retries + 1) is exhausted without break or
\* raise, and line 69 reads the local `data` that was never bound
LoopExhausted ==
    /\ pc = "attempt"
    /\ attempt >= max_retries
    /\ pc' = "raised"
    /\ ret' = Raise("UnboundLocalError")
    /\ UNCHANGED <<caller, cfgVars, engineVars, q_start, q_end, max_retries,
                   attempt, data, outcomes>>

(***************************************************************************)
(* simulate_gdd                                                            *)
(***************************************************************************)
\* line 108
WhileCond_NoHorizon == cum_gdd < highest_target
WhileCond_Exclusive == cum_gdd < highest_target /\ current_start < end_date_limit
WhileCond == cum_gdd < highest_target /\ current_start <= end_date_limit

\* line 109
BlockEnd_NoClamp == current_start + (block_days - 1)
BlockEnd == Min(current_start + (block_days - 1), end_date_limit)

\* lines 108-113: the loop is entered, current_end computed and the fetch called
LoopEnter ==
    /\ caller = "simulate_gdd"
    /\ pc = "loop"
    /\ WhileCond
    /\ current_end' = BlockEnd
    /\ q_start' = strftime(current_start)
    /\ q_end' = strftime(current_end')
    /\ max_retries' = DefaultMaxRetries
    /\ attempt' = 0
    /\ data' = NoData
    /\ ret' = NoRet
    /\ outcomes' = <<>>
    /\ pc' = "attempt"
    /\ UNCHANGED <<caller, cfgVars, cum_gdd, stage_dates, history_rows,
                   current_start, df_block, st_error, got_rows, fetch_log>>

\* lines 108, 143: the loop condition is false, the function returns
LoopExit ==
    /\ caller = "simulate_gdd"
    /\ pc = "loop"
    /\ ~WhileCond
    /\ pc' = "done"
    /\ UNCHANGED <<caller, cfgVars, engineVars, clientVars>>

\* lines 114-117, 143: the fetch raised; st.error, break, return
EngineCatch_Discard ==
    /\ caller = "simulate_gdd"
    /\ pc = "raised"
    /\ st_error' = TRUE
    /\ history_rows' = <<>>
    /\ stage_dates' = [thr \in targets |-> None]
    /\ fetch_log' = Logged(ret)
    /\ pc' = "done"
    /\ UNCHANGED <<caller, cfgVars, cum_gdd, current_start, current_end, df_block,
                   got_rows, clientVars>>

EngineCatch ==
    /\ caller = "simulate_gdd"
    /\ pc = "raised"
    /\ st_error' = TRUE
    /\ fetch_log' = Logged(ret)
    /\ pc' = "done"
    /\ UNCHANGED <<caller, cfgVars, cum_gdd, stage_dates, history_rows,
                   current_start, current_end, df_block, got_rows, clientVars>>

\* lines 113, 119: the fetch returned, the rows of df_block are iterated
EngineIterate_ResetCum ==
    /\ caller = "simulate_gdd"
    /\ pc = "returned"
    /\ df_block' = ret.rows
    /\ got_rows' = (got_rows \/ ret.rows # <<>>)
    /\ fetch_log' = Logged(ret)
    /\ cum_gdd' = 0
    /\ pc' = "rows"
    /\ UNCHANGED <<caller, cfgVars, stage_dates, history_rows,
                   current_start, current_end, st_error, clientVars>>

EngineIterate ==
    /\ caller = "simulate_gdd"
    /\ pc = "returned"
    /\ df_block' = ret.rows
    /\ got_rows' = (got_rows \/ ret.rows # <<>>)
    /\ fetch_log' = Logged(ret)
    /\ pc' = "rows"
    /\ UNCHANGED <<caller, cfgVars, cum_gdd, stage_dates, history_rows,
                   current_start, current_end, st_error, clientVars>>

\* line 120
RowBreak_Never == FALSE
RowBreak == cum_gdd >= highest_target

\* lines 137-139
UpdateStages_Overwrite(stage, cum, date_d) ==
    [thr \in DOMAIN stage |-> IF cum >= thr THEN Some(date_d) ELSE stage[thr]]

UpdateStages_Strict(stage, cum, date_d) ==
    [thr \in DOMAIN stage |->
        IF stage[thr] = None /\ cum > thr THEN Some(date_d) ELSE stage[thr]]

UpdateStages(stage, cum, date_d) ==
    [thr \in DOMAIN stage |->
        IF stage[thr] = None /\ cum >= thr THEN Some(date_d) ELSE stage[thr]]

\* lines 119-139: one row of the block
ProcessRow ==
    /\ caller = "simulate_gdd"
    /\ pc = "rows"
    /\ df_block # <<>>
    /\ ~RowBreak
    /\ LET row == Head(df_block)
           gdd_day == daily_gdd(row.T2M_MAX, row.T2M_MIN, tbase)
       IN  /\ cum_gdd' = cum_gdd + gdd_day
           /\ history_rows' = Append(history_rows,
                                 [date |-> row.date,
                                  T2M_MAX |-> row.T2M_MAX,
                                  T2M_MIN |-> row.T2M_MIN,
                                  GDD_day |-> gdd_day,
                                  GDD_cum |-> cum_gdd + gdd_day])
           /\ stage_dates' = UpdateStages(stage_dates, cum_gdd + gdd_day, row.date)
    /\ df_block' = Tail(df_block)
    /\ pc' = "rows"
    /\ UNCHANGED <<caller, cfgVars, current_start, current_end, st_error, got_rows,
                   fetch_log, clientVars>>

\* line 141
NextStart_SameDay == current_end
NextStart == current_end + 1

\* lines 119-121, 141: the rows are exhausted or the loop over them is left
\* by break; the next block start is set
EndBlock ==
    /\ caller = "simulate_gdd"
    /\ pc = "rows"
    /\ (df_block = <<>> \/ RowBreak)
    /\ current_start' = NextStart
    /\ df_block' = <<>>
    /\ pc' = "loop"
    /\ UNCHANGED <<caller, cfgVars, cum_gdd, stage_dates, history_rows,
                   current_end, st_error, got_rows, fetch_log, clientVars>>

(***************************************************************************)
(* Specifications.                                                         *)
(***************************************************************************)
\* lines 98-106: a run of simulate_gdd
Init ==
    /\ caller = "simulate_gdd"
    /\ pc = "loop"
    /\ start_date = StartDay
    /\ tbase \in TBases
    /\ targets \in TargetChoices
    /\ max_days \in (0 - 1)..MaxDays
    /\ block_days \in 0..MaxBlockDays
    /\ cum_gdd = 0
    /\ stage_dates = [thr \in targets |-> None]
    /\ history_rows = <<>>
    /\ current_start = start_date
    /\ current_end = start_date
    /\ df_block = <<>>
    /\ st_error = FALSE
    /\ got_rows = FALSE
    /\ q_start = strftime(start_date)
    /\ q_end = strftime(start_date)
    /\ max_retries = DefaultMaxRetries
    /\ attempt = 0
    /\ data = NoData
    /\ ret = NoRet
    /\ outcomes = <<>>
    /\ remote = AnySource
    /\ fetch_log = <<>>
    /\ self = 0
    /\ parked = NoFrame

Next ==
    \/ LoopEnter
    \/ LoopExit
    \/ AttemptSucceeds
    \/ AttemptHTTPError
    \/ AttemptRequestException
    \/ EngineCatch
    \/ EngineIterate
    \/ ProcessRow
    \/ EndBlock

Spec == Init /\ [][Next]_vars

\* lines 32-48: get_power_daily_tmax_tmin called on its own
InitClient ==
    /\ caller = "direct"
    /\ pc = "attempt"
    /\ start_date = StartDay
    /\ tbase \in TBases
    /\ targets = {0}
    /\ max_days = 0
    /\ block_days = 1
    /\ cum_gdd = 0
    /\ stage_dates = [thr \in targets |-> None]
    /\ history_rows = <<>>
    /\ current_start = start_date
    /\ current_end = start_date
    /\ df_block = <<>>
    /\ st_error = FALSE
    /\ got_rows = FALSE
    /\ q_start = strftime(StartDay)
    /\ \E e \in (StartDay - 1)..(StartDay + MaxBlockDays) : q_end = strftime(e)
    /\ max_retries \in 0..MaxRetries
    /\ attempt = 0
    /\ data = NoData
    /\ ret = NoRet
    /\ outcomes = <<>>
    /\ remote = AnySource
    /\ fetch_log = <<>>
    /\ self = 0
    /\ parked = NoFrame

NextClient ==
    \/ AttemptSucceeds
    \/ AttemptHTTPError
    \/ AttemptRequestException
    \/ LoopExhausted

SpecClient == InitClient /\ [][NextClient]_vars

\* lines 98-106: a run of simulate_gdd against a fixed source
InitFixed ==
    /\ caller = "simulate_gdd"
    /\ pc = "loop"
    /\ start_date = StartDay
    /\ tbase = 10
    /\ targets \in {{100, 300}, {45, 105}, {100}, {9, 30}}
    /\ max_days \in {5, 9, 12}
    /\ block_days \in {1, 3, 4, 30}
    /\ cum_gdd = 0
    /\ stage_dates = [thr \in targets |-> None]
    /\ history_rows = <<>>
    /\ current_start = start_date
    /\ current_end = start_date
    /\ df_block = <<>>
    /\ st_error = FALSE
    /\ got_rows = FALSE
    /\ q_start = strftime(start_date)
    /\ q_end = strftime(start_date)
    /\ max_retries = DefaultMaxRetries
    /\ attempt = 0
    /\ data = NoData
    /\ ret = NoRet
    /\ outcomes = <<>>
    /\ remote \in FixedSources
    /\ fetch_log = <<>>
    /\ self = 0
    /\ parked = NoFrame

NextFixed ==
    \/ LoopEnter
    \/ LoopExit
    \/ AttemptFixedSource
    \/ EngineIterate
    \/ ProcessRow
    \/ EndBlock

SpecFixed == InitFixed /\ [][NextFixed]_vars

\* daily_gdd applied to the rows of one block: lines 119-135 with every
\* tmax, tmin (of even sum) and tbase of the ranges below
GddTemps == (0 - MaxGddTemp)..MaxGddTemp
GddBases == {0 - 1, 0, 2}
GddPairs == {p \in GddTemps \X GddTemps : (p[1] + p[2]) % 2 = 0}
GddRows ==
    {<<[date |-> StartDay, T2M_MAX |-> p[1], T2M_MIN |-> p[2]],
       [date |-> StartDay + 1, T2M_MAX |-> q[1], T2M_MIN |-> q[2]]>> :
        p \in GddPairs, q \in GddPairs}

\* the response that parses into the rows
DataOfRows(rows) ==
    LET keys == {strftime(rows[i].date) : i \in 1..Len(rows)}
        rowOf(k) == rows[CHOOSE i \in 1..Len(rows) : strftime(rows[i].date) = k]
    IN  [wellformed |-> TRUE,
         T2M_MAX |-> [k \in keys |-> rowOf(k).T2M_MAX],
         T2M_MIN |-> [k \in keys |-> rowOf(k).T2M_MIN]]

InitGdd ==
    /\ caller = "simulate_gdd"
    /\ pc = "rows"
    /\ start_date = StartDay
    /\ tbase \in GddBases
    /\ targets = {100}
    /\ max_days = 1
    /\ block_days = 2
    /\ cum_gdd = 0
    /\ stage_dates = [thr \in targets |-> None]
    /\ history_rows = <<>>
    /\ current_start = start_date
    /\ current_end = start_date + 1
    /\ df_block \in GddRows
    /\ st_error = FALSE
    /\ got_rows = TRUE
    /\ q_start = strftime(start_date)
    /\ q_end = strftime(start_date + 1)
    /\ max_retries = DefaultMaxRetries
    /\ attempt = 1
    /\ data = DataOfRows(df_block)
    /\ ret = Return(df_block)
    /\ outcomes = <<200>>
    /\ remote = AnySource
    /\ fetch_log = <<>>
    /\ self = 0
    /\ parked = NoFrame

NextGdd == ProcessRow

SpecGdd == InitGdd /\ [][NextGdd]_vars

(***************************************************************************)
(* Two runs of simulate_gdd interleaved.  Every name simulate_gdd and       *)
(* get_power_daily_tmax_tmin assign is a local of the call (lines 36-82,    *)
(* 98-141); the module has no global they write.  The variables hold the    *)
(* frame of the run that is executing, parked the frame of the other one.   *)
(***************************************************************************)
CurrentFrame ==
    [caller |-> caller,
     pc |-> pc,
     start_date |-> start_date,
     tbase |-> tbase,
     targets |-> targets,
     max_days |-> max_days,
     block_days |-> block_days,
     remote |-> remote,
     cum_gdd |-> cum_gdd,
     stage_dates |-> stage_dates,
     history_rows |-> history_rows,
     current_start |-> current_start,
     current_end |-> current_end,
     df_block |-> df_block,
     st_error |-> st_error,
     got_rows |-> got_rows,
     fetch_log |-> fetch_log,
     q_start |-> q_start,
     q_end |-> q_end,
     max_retries |-> max_retries,
     attempt |-> attempt,
     data |-> data,
     ret |-> ret,
     outcomes |-> outcomes]

\* the other run is scheduled: the frames are exchanged
Switch_SharedCum ==
    /\ self \in {1, 2}
    /\ self' = 3 - self
    /\ parked' = CurrentFrame
    /\ caller' = parked.caller
    /\ pc' = parked.pc
    /\ start_date' = parked.start_date
    /\ tbase' = parked.tbase
    /\ targets' = parked.targets
    /\ max_days' = parked.max_days
    /\ block_days' = parked.block_days
    /\ remote' = parked.remote
    /\ cum_gdd' = cum_gdd
    /\ stage_dates' = parked.stage_dates
    /\ history_rows' = parked.history_rows
    /\ current_start' = parked.current_start
    /\ current_end' = parked.current_end
    /\ df_block' = parked.df_block
    /\ st_error' = parked.st_error
    /\ got_rows' = parked.got_rows
    /\ fetch_log' = parked.fetch_log
    /\ q_start' = parked.q_start
    /\ q_end' = parked.q_end
    /\ max_retries' = parked.max_retries
    /\ attempt' = parked.attempt
    /\ data' = parked.data
    /\ ret' = parked.ret
    /\ outcomes' = parked.outcomes

Switch ==
    /\ self \in {1, 2}
    /\ self' = 3 - self
    /\ parked' = CurrentFrame
    /\ caller' = parked.caller
    /\ pc' = parked.pc
    /\ start_date' = parked.start_date
    /\ tbase' = parked.tbase
    /\ targets' = parked.targets
    /\ max_days' = parked.max_days
    /\ block_days' = parked.block_days
    /\ remote' = parked.remote
    /\ cum_gdd' = parked.cum_gdd
    /\ stage_dates' = parked.stage_dates
    /\ history_rows' = parked.history_rows
    /\ current_start' = parked.current_start
    /\ current_end' = parked.current_end
    /\ df_block' = parked.df_block
    /\ st_error' = parked.st_error
    /\ got_rows' = parked.got_rows
    /\ fetch_log' = parked.fetch_log
    /\ q_start' = parked.q_start
    /\ q_end' = parked.q_end
    /\ max_retries' = parked.max_retries
    /\ attempt' = parked.attempt
    /\ data' = parked.data
    /\ ret' = parked.ret
    /\ outcomes' = parked.outcomes

\* lines 98-106: the frame of a run that has just been called
InitialFrame(tb, tg, md, bd) ==
    [caller |-> "simulate_gdd",
     pc |-> "loop",
     start_date |-> StartDay,
     tbase |-> tb,
     targets |-> tg,
     max_days |-> md,
     block_days |-> bd,
     remote |-> AnySource,
     cum_gdd |-> 0,
     stage_dates |-> [thr \in tg |-> None],
     history_rows |-> <<>>,
     current_start |-> StartDay,
     current_end |-> StartDay,
     df_block |-> <<>>,
     st_error |-> FALSE,
     got_rows |-> FALSE,
     fetch_log |-> <<>>,
     q_start |-> strftime(StartDay),
     q_end |-> strftime(StartDay),
     max_retries |-> DefaultMaxRetries,
     attempt |-> 0,
     data |-> NoData,
     ret |-> NoRet,
     outcomes |-> <<>>]

InitTwo ==
    /\ caller = "simulate_gdd"
    /\ pc = "loop"
    /\ start_date = StartDay
    /\ tbase \in TBases
    /\ targets \in {{2}, {2, 4}}
    /\ max_days = 1
    /\ block_days = 1
    /\ cum_gdd = 0
    /\ stage_dates = [thr \in targets |-> None]
    /\ history_rows = <<>>
    /\ current_start = start_date
    /\ current_end = start_date
    /\ df_block = <<>>
    /\ st_error = FALSE
    /\ got_rows = FALSE
    /\ q_start = strftime(start_date)
    /\ q_end = strftime(start_date)
    /\ max_retries = DefaultMaxRetries
    /\ attempt = 0
    /\ data = NoData
    /\ ret = NoRet
    /\ outcomes = <<>>
    /\ remote = AnySource
    /\ fetch_log = <<>>
    /\ self = 1
    /\ parked \in {InitialFrame(tb, {0, 3}, 1, 2) : tb \in TBases}

NextTwo ==
    \/ LoopEnter
    \/ LoopExit
    \/ AttemptSucceeds
    \/ EngineCatch
    \/ EngineIterate
    \/ ProcessRow
    \/ EndBlock
    \/ Switch

SpecTwo == InitTwo /\ [][NextTwo]_vars

\* a run of simulate_gdd whose every step is eventually taken: the function is
\* one sequential control flow and requests.get returns or raises within its
\* timeout (line 52)
SpecFair == Init /\ [][Next]_vars /\ WF_vars(Next)

(***************************************************************************)
(* Properties.                                                             *)
(***************************************************************************)
\* line 143: the value simulate_gdd returns
simulate_gdd_return == <<history_rows, stage_dates>>

\* what a run returns when no day was ever processed
EmptyRunReturn == <<<<>>, [thr \in targets |-> None]>>

AllUnset == \A thr \in targets : stage_dates[thr] = None

\* an attempt that met a 5xx status or a network-level failure
TransientOutcome(o) == o = 0 \/ (500 <= o /\ o <= 599)
AllTransient(s) == \A i \in 1..Len(s) : TransientOutcome(s[i])
Front(s) == SubSeq(s, 1, Len(s) - 1)

\* the keys a response has for both variables
BothKeys(d) == (DOMAIN d.T2M_MAX) \cap (DOMAIN d.T2M_MIN)

----
\* C1: a threshold's stage_dates entry, once set, is never written again, and
\* the date it holds is the date of the earliest record whose GDD_cum is >=
\* the threshold.
C1_EarliestRecord ==
    \A thr \in targets :
        stage_dates[thr] # None =>
            \E i \in 1..Len(history_rows) :
                /\ history_rows[i].GDD_cum >= thr
                /\ \A j \in 1..(i - 1) : history_rows[j].GDD_cum < thr
                /\ stage_dates[thr] = Some(history_rows[i].date)

C1_WrittenOnce ==
    \A thr \in targets : stage_dates[thr] # None => stage_dates'[thr] = stage_dates[thr]

C1_StageSetOnce == []C1_EarliestRecord /\ [][C1_WrittenOnce]_vars

\* two thresholds were crossed on different days and a record was appended
\* after the first crossing
C1_Witness ==
    \E t1, t2 \in targets :
        /\ stage_dates[t1] # None /\ stage_dates[t2] # None
        /\ stage_dates[t1] # stage_dates[t2]
        /\ Len(history_rows) >= 2

----
\* C2: the records have strictly increasing dates (no duplicates) and
\* non-decreasing GDD_cum, in every state of a run and across blocks.
C2_RecordsOrdered ==
    \A i, j \in 1..Len(history_rows) :
        i < j => /\ history_rows[i].date < history_rows[j].date
                 /\ history_rows[i].GDD_cum <= history_rows[j].GDD_cum

\* records of two different blocks with an empty block between them, the
\* second one a day that adds nothing
C2_Witness ==
    /\ block_days = 1
    /\ Len(history_rows) = 2
    /\ history_rows[2].date = history_rows[1].date + 2
    /\ history_rows[2].GDD_cum = history_rows[1].GDD_cum
    /\ history_rows[1].GDD_cum > 0

----
\* C3: once cum_gdd >= max(targets) no record is appended and no fetch is
\* issued, so only the last record can have GDD_cum >= max(targets).
C3_OnlyLastReaches ==
    \A i \in 1..(Len(history_rows) - 1) : history_rows[i].GDD_cum < highest_target

C3_NoMoreWork ==
    cum_gdd >= highest_target =>
        /\ history_rows' = history_rows
        /\ stage_dates' = stage_dates
        /\ pc' \in {"loop", "done"}

C3_StopsAtMaxTarget == []C3_OnlyLastReaches /\ [][C3_NoMoreWork]_vars

\* the highest target was reached with days of the block left over, and the
\* run ended
C3_Witness ==
    /\ pc = "done"
    /\ history_rows # <<>>
    /\ cum_gdd >= highest_target
    /\ Len(ret.rows) > 1
    /\ history_rows[Len(history_rows)].date = ret.rows[1].date

----
\* C4: from the call of the fetch to its failure the records and stage_dates
\* do not change, the failure ends the run at once, and nothing happens after
\* the return: what is returned is what the earlier blocks produced.
C4_FetchKeepsProgress ==
    (caller = "simulate_gdd" /\ pc \in {"loop", "attempt", "raised"}) =>
        UNCHANGED <<history_rows, stage_dates, cum_gdd>>

C4_FailureEndsRun ==
    (caller = "simulate_gdd" /\ pc = "raised") => pc' = "done"

C4_DoneIsFinal == pc = "done" => UNCHANGED vars

C4_FailureStopsRun ==
    /\ [][C4_FetchKeepsProgress]_vars
    /\ [][C4_FailureEndsRun]_vars
    /\ [][C4_DoneIsFinal]_vars

\* a later block failed after earlier blocks produced records and a crossing
C4_Witness ==
    /\ pc = "done"
    /\ ret.kind = "raise"
    /\ current_start > start_date
    /\ history_rows # <<>>
    /\ ~AllUnset

----
\* C5: a run whose first block fetch fails with a non-retried error returns a
\* result that shows the failure, so that it differs from the value returned
\* by a run that met no error and no data. Line 143 returns the pair
\* (records, stage_dates) only, so the code violates this.
C5_ReturnCarriesFailure ==
    (pc = "done" /\ ret.kind = "raise" /\ current_start = start_date /\ ~got_rows)
        => simulate_gdd_return # EmptyRunReturn

----
\* C6: with max_retries >= 1, transient failures are retried while attempts
\* remain; a success on attempt N returns after exactly N attempts; max_retries
\* transient failures raise after exactly max_retries attempts, and there is
\* never another attempt.
C6_BoundedRetry ==
    max_retries >= 1 =>
        /\ attempt = Len(outcomes)
        /\ attempt <= max_retries
        /\ (AllTransient(outcomes) /\ Len(outcomes) < max_retries) => pc = "attempt"
        /\ (AllTransient(outcomes) /\ Len(outcomes) = max_retries) =>
              /\ pc = "raised"
              /\ ret.kind = "raise"
              /\ ret.exc = (IF outcomes[Len(outcomes)] = 0
                            THEN "RequestException" ELSE "HTTPError")
        /\ (/\ outcomes # <<>>
            /\ outcomes[Len(outcomes)] = 200
            /\ data.wellformed
            /\ DOMAIN data.T2M_MAX \subseteq DOMAIN data.T2M_MIN) =>
              /\ AllTransient(Front(outcomes))
              /\ pc = "returned"
              /\ ret.kind = "ok"
              /\ Len(ret.rows) = Cardinality(DOMAIN data.T2M_MAX)

\* two transient failures, then the third and last attempt succeeds with data
C6_Witness ==
    /\ max_retries = 3
    /\ Len(outcomes) = 3
    /\ outcomes[1] = 500
    /\ outcomes[2] = 0
    /\ outcomes[3] = 200
    /\ pc = "returned"
    /\ ret.rows # <<>>

\* every attempt of a call with max_retries = 2 failed transiently
C6_ExhaustedWitness ==
    /\ max_retries = 2
    /\ outcomes = <<503, 0>>
    /\ pc = "raised"

----
\* C7: a 4xx status on any attempt is the last attempt of the call, which
\* raises HTTPError whatever number of attempts remain.
C7_ClientErrorNotRetried ==
    \A i \in 1..Len(outcomes) :
        (400 <= outcomes[i] /\ outcomes[i] <= 499) =>
            /\ i = Len(outcomes)
            /\ attempt = i
            /\ pc = "raised"
            /\ ret = Raise("HTTPError")

\* a 404 on the second of three attempts, after a retried 5xx
C7_Witness ==
    /\ max_retries = 3
    /\ outcomes = <<500, 404>>
    /\ pc = "raised"

----
\* C8 as stated: with max_days <= 0 the run returns no record, no threshold
\* set and no error.
C8_NoHorizonNoWork ==
    (pc = "done" /\ max_days <= 0) =>
        (history_rows = <<>> /\ AllUnset /\ ~st_error)

\* C8 amended: when start_date exceeds the horizon end on entry (max_days < 0)
\* no fetch is issued and the run returns no record, no threshold set and no
\* error; with max_days = 0 the block [start_date, start_date] is still
\* fetched.
C8_PastHorizonNoWork ==
    max_days < 0 =>
        /\ pc \in {"loop", "done"}
        /\ attempt = 0
        /\ outcomes = <<>>
        /\ history_rows = <<>>
        /\ AllUnset
        /\ ~st_error

\* a run with a positive target and start_date past the horizon end returned
C8_Witness ==
    /\ pc = "done"
    /\ max_days < 0
    /\ highest_target > 0
    /\ block_days >= 1

----
\* C9: a fetch that returns no rows changes neither cum_gdd nor the records
\* nor stage_dates, raises no error, and the next block starts at
\* current_end + 1; a run in which no fetch returned rows or failed ends with no
\* record, no threshold set and no error.
C9_EmptyBlockStep ==
    (caller = "simulate_gdd" /\ pc \in {"returned", "rows"} /\ ret.rows = <<>>) =>
        /\ UNCHANGED <<cum_gdd, history_rows, stage_dates, st_error>>
        /\ pc = "rows" => (pc' = "loop" /\ current_start' = current_end + 1)

C9_AllEmptyRun ==
    (pc = "done" /\ ~got_rows /\ ret.kind # "raise") =>
        (history_rows = <<>> /\ AllUnset /\ ~st_error)

C9_EmptyBlockSkipped == []C9_AllEmptyRun /\ [][C9_EmptyBlockStep]_vars

\* every one-day block of the longest horizon was fetched and was empty
C9_Witness ==
    /\ pc = "done"
    /\ ~got_rows
    /\ ret.kind = "ok"
    /\ block_days = 1
    /\ max_days = MaxDays
    /\ current_start = end_date_limit + 1
    /\ highest_target > 0

----
\* C10: a well-formed response yields one row per key present for both
\* T2M_MAX and T2M_MIN, in ascending date order, and a key present for one
\* variable only does not make the call fail.
C10_SparseKeysTolerated ==
    (/\ caller = "direct"
     /\ outcomes # <<>>
     /\ outcomes[Len(outcomes)] = 200
     /\ data.wellformed) =>
        /\ pc = "returned"
        /\ ret.kind = "ok"
        /\ {ret.rows[i].date : i \in 1..Len(ret.rows)} = {strptime(k) : k \in BothKeys(data)}
        /\ Len(ret.rows) = Cardinality(BothKeys(data))
        /\ \A i, j \in 1..Len(ret.rows) : i < j => ret.rows[i].date < ret.rows[j].date

----
\* C11: a response that arrives with status 200 but lacks the top-level
\* structure makes the fetch raise at once, without another attempt, and the
\* run stops with the records and stage_dates it had before that block.
MalformedReceived ==
    /\ caller = "simulate_gdd"
    /\ outcomes # <<>>
    /\ outcomes[Len(outcomes)] = 200
    /\ ~data.wellformed

C11_Raised ==
    MalformedReceived =>
        /\ pc \in {"raised", "done"}
        /\ ret = Raise("KeyError")
        /\ attempt = Len(outcomes)
        /\ pc = "done" => st_error

C11_Propagated ==
    MalformedReceived' =>
        /\ UNCHANGED <<history_rows, stage_dates, cum_gdd>>
        /\ pc' \in {"raised", "done"}

C11_MalformedStopsRun == []C11_Raised /\ [][C11_Propagated]_vars

\* a later block answered with a malformed response on its first attempt, two
\* attempts were left, and the run returned the earlier records
C11_Witness ==
    /\ pc = "done"
    /\ MalformedReceived
    /\ outcomes = <<200>>
    /\ history_rows # <<>>
    /\ ~AllUnset
    /\ st_error

----
\* C15: with block_days >= 1 every requested range is
\* [current_start, min(current_start + block_days - 1, start_date + max_days)],
\* the first range starts at start_date, each later one the day after the end
\* of the previous one, none is longer than block_days days and none goes past
\* the horizon end.
C15_Range ==
    (caller = "simulate_gdd" /\ pc = "attempt" /\ block_days >= 1) =>
        /\ strptime(q_start) = current_start
        /\ strptime(q_end) = current_end
        /\ current_end = Min(current_start + block_days - 1, start_date + max_days)
        /\ strptime(q_start) <= strptime(q_end)
        /\ strptime(q_end) - strptime(q_start) + 1 <= block_days
        /\ strptime(q_end) <= start_date + max_days
        /\ q_start <= q_end

C15_Contiguous ==
    (caller = "simulate_gdd" /\ block_days >= 1 /\ pc = "loop" /\ pc' = "attempt") =>
        IF ret.kind = "none"
        THEN strptime(q_start') = start_date
        ELSE strptime(q_start') = strptime(q_end) + 1

C15_BlockRanges == []C15_Range /\ [][C15_Contiguous]_vars

\* the last block of a horizon of three days fetched in blocks of two: one day,
\* cut at the horizon end, in the next month
C15_Witness ==
    /\ pc = "attempt"
    /\ block_days = 2
    /\ max_days = 2
    /\ current_start = start_date + 2
    /\ current_end = current_start
    /\ q_end > q_start - 1
    /\ q_start = strftime(StartDay + 2)

----
\* C16: with block_days >= 1 every run ends, and when it has ended cum_gdd >=
\* max(targets), or current_start is past start_date + max_days, or the last
\* fetch failed.
C16_EndCondition ==
    pc = "done" =>
        \/ cum_gdd >= highest_target
        \/ current_start > start_date + max_days
        \/ ret.kind = "raise"

C16_Terminates ==
    /\ [](block_days >= 1 => <>(pc = "done"))
    /\ []C16_EndCondition

\* a run that processed rows and ended by exhausting the horizon
C16_Witness ==
    /\ pc = "done"
    /\ block_days >= 1
    /\ got_rows
    /\ cum_gdd < highest_target
    /\ ret.kind = "ok"
    /\ current_start = start_date + max_days + 1

----
\* C17: for every block_days >= 0 an iteration of the loop requests a range
\* with start <= end and moves current_start strictly forward.
C17_IterationAdvances ==
    /\ (caller = "simulate_gdd" /\ pc = "loop" /\ pc' = "attempt")
          => current_start <= current_end'
    /\ (caller = "simulate_gdd" /\ pc = "rows" /\ pc' = "loop")
          => current_start' > current_start

C17_EveryIterationAdvances == [][C17_IterationAdvances]_vars

----
\* C18: for every positive threshold, stage_dates[thr] is set exactly when
\* cum_gdd >= thr; a set threshold has every smaller threshold set, with a date
\* not later.
C18_SetIffReached ==
    caller = "simulate_gdd" =>
        /\ \A thr \in targets :
              thr > 0 => (stage_dates[thr] # None <=> cum_gdd >= thr)
        /\ \A t1, t2 \in targets :
              (t1 < t2 /\ stage_dates[t2] # None) =>
                  /\ stage_dates[t1] # None
                  /\ stage_dates[t1][1] <= stage_dates[t2][1]

\* cum_gdd is exactly the lower threshold, which is set, the higher one is not
C18_Witness ==
    /\ targets = {2, 4}
    /\ cum_gdd = 2
    /\ Len(history_rows) = 2
    /\ stage_dates[2] = Some(history_rows[2].date)
    /\ stage_dates[4] = None

----
\* C19: each record's GDD_cum is the sum of GDD_day of the records up to it,
\* every GDD_day and GDD_cum is >= 0, and cum_gdd is the GDD_cum of the last
\* record (0 without records).
RECURSIVE SumGddDay(_, _)
SumGddDay(rows, n) == IF n = 0 THEN 0 ELSE SumGddDay(rows, n - 1) + rows[n].GDD_day

C19_RunningSum ==
    /\ \A i \in 1..Len(history_rows) :
          /\ history_rows[i].GDD_day >= 0
          /\ history_rows[i].GDD_cum >= 0
          /\ history_rows[i].GDD_cum = SumGddDay(history_rows, i)
    /\ cum_gdd = IF history_rows = <<>> THEN 0
                 ELSE history_rows[Len(history_rows)].GDD_cum

\* two records of two different blocks, both days adding heat, one day without
C19_Witness ==
    /\ block_days = 1
    /\ Len(history_rows) = 3
    /\ history_rows[1].GDD_day > 0
    /\ history_rows[2].GDD_day = 0
    /\ history_rows[3].GDD_day > 0
    /\ history_rows[3].GDD_cum = history_rows[1].GDD_day + history_rows[3].GDD_day

----
\* C12: against a source of 10 consecutive days of tmax 30, tmin 20, with
\* tbase 10 and targets {100, 300}, the seventh record has GDD_cum 105 and
\* dates threshold 100, threshold 300 stays unset and the total is 150 after
\* the 10 days; with any constant daily GDD g > 0 a positive threshold T is
\* dated on day ceil(T / g) once that day is processed and is unset before.
ConstantGdd == (remote.tmax + remote.tmin - 2 * tbase) \div 2
CeilDiv(a, b) == (a + b - 1) \div b

C12_Scenario ==
    (remote = [tmax |-> 30, tmin |-> 20, ndays |-> 10] /\ targets = {100, 300}) =>
        /\ Len(history_rows) >= 7 =>
              /\ history_rows[7].GDD_cum = 105
              /\ history_rows[7].date = start_date + 6
              /\ stage_dates[100] = Some(start_date + 6)
        /\ Len(history_rows) < 7 => stage_dates[100] = None
        /\ stage_dates[300] = None
        /\ (pc = "done" /\ max_days >= 9) => (Len(history_rows) = 10 /\ cum_gdd = 150)

C12_General ==
    ConstantGdd > 0 =>
        \A T \in targets :
            T > 0 =>
                stage_dates[T] =
                    IF Len(history_rows) >= CeilDiv(T, ConstantGdd)
                    THEN Some(start_date + CeilDiv(T, ConstantGdd) - 1)
                    ELSE None

C12_ConstantDays == C12_Scenario /\ C12_General

\* the scenario run to its end over a horizon of exactly the 10 days, in blocks
\* of three days
C12_Witness ==
    /\ pc = "done"
    /\ remote = [tmax |-> 30, tmin |-> 20, ndays |-> 10]
    /\ targets = {100, 300}
    /\ max_days = 9
    /\ block_days = 3
    /\ cum_gdd = 150
    /\ stage_dates[100] = Some(StartDay + 6)

----
\* C13: a record's GDD_day is >= 0, is (tmax + tmin) / 2 - tbase when that is
\* >= 0 and 0 otherwise, and a day below the base does not lower cum_gdd.
C13_Clamped ==
    \A i \in 1..Len(history_rows) :
        LET r == history_rows[i]
            twice == r.T2M_MAX + r.T2M_MIN - 2 * tbase
        IN  /\ r.GDD_day >= 0
            /\ twice >= 0 => 2 * r.GDD_day = twice
            /\ twice < 0 => r.GDD_day = 0

C13_NoHeatDebt ==
    /\ cum_gdd' >= cum_gdd
    /\ (pc = "rows" /\ df_block # <<>>
          /\ Head(df_block).T2M_MAX + Head(df_block).T2M_MIN < 2 * tbase)
          => cum_gdd' = cum_gdd

C13_DailyGdd == []C13_Clamped /\ [][C13_NoHeatDebt]_vars

\* a day above the base followed by a day below it
C13_Witness ==
    /\ Len(history_rows) = 2
    /\ history_rows[1].GDD_day > 0
    /\ history_rows[2].T2M_MAX + history_rows[2].T2M_MIN < 2 * tbase
    /\ history_rows[2].GDD_cum = history_rows[1].GDD_day
    /\ cum_gdd = history_rows[1].GDD_cum

----
\* C14: with two runs interleaved in every possible way, the cum_gdd,
\* stage_dates, records and next block start of each run are, between blocks
\* and at its end, what one run alone computes from the results of that run's
\* own fetches; a step of one run leaves the other run's frame as it is.
SoloStart(f) ==
    [cum_gdd |-> 0,
     stage_dates |-> [thr \in f.targets |-> None],
     history_rows |-> <<>>,
     current_start |-> f.start_date]

RECURSIVE SoloRows(_, _, _)
SoloRows(f, st, rows) ==
    IF rows = <<>> \/ st.cum_gdd >= SetMax(f.targets)
    THEN st
    ELSE LET row == Head(rows)
             twice == row.T2M_MAX + row.T2M_MIN - 2 * f.tbase
             gdd == IF twice >= 0 THEN twice \div 2 ELSE 0
             cum == st.cum_gdd + gdd
         IN  SoloRows(f,
                 [st EXCEPT
                    !.cum_gdd = cum,
                    !.history_rows = Append(@, [date |-> row.date,
                                                T2M_MAX |-> row.T2M_MAX,
                                                T2M_MIN |-> row.T2M_MIN,
                                                GDD_day |-> gdd,
                                                GDD_cum |-> cum]),
                    !.stage_dates = [thr \in f.targets |->
                                        IF @[thr] = None /\ cum >= thr
                                        THEN Some(row.date) ELSE @[thr]]],
                 Tail(rows))

RECURSIVE SoloRun(_, _, _)
SoloRun(f, st, log) ==
    IF log = <<>> \/ Head(log).kind = "raise"
    THEN st
    ELSE LET last == f.start_date + f.max_days
             block_end == IF st.current_start + f.block_days - 1 <= last
                          THEN st.current_start + f.block_days - 1 ELSE last
         IN  SoloRun(f,
                 [SoloRows(f, st, Head(log).rows) EXCEPT !.current_start = block_end + 1],
                 Tail(log))

FrameResult(f) ==
    [cum_gdd |-> f.cum_gdd,
     stage_dates |-> f.stage_dates,
     history_rows |-> f.history_rows,
     current_start |-> f.current_start]

C14_AsAlone ==
    \A f \in {CurrentFrame, parked} :
        f.pc \in {"loop", "done"} => FrameResult(f) = SoloRun(f, SoloStart(f), f.fetch_log)

C14_OtherUntouched ==
    /\ self' = self => parked' = parked
    /\ self' # self => (parked' = CurrentFrame /\ CurrentFrame' = parked)

C14_RunsIndependent == []C14_AsAlone /\ [][C14_OtherUntouched]_vars

\* one run is between two blocks with records, the other was parked in the
\* middle of a block with a row processed and a row left
C14_Witness ==
    /\ pc = "loop"
    /\ history_rows # <<>>
    /\ cum_gdd > 0
    /\ parked.pc = "rows"
    /\ parked.history_rows # <<>>
    /\ parked.df_block # <<>>
    /\ parked.cum_gdd > 0
    /\ parked.cum_gdd # cum_gdd

====
